---- MODULE Spec2Model ----
(***************************************************************************)
(* Model of src/part_total_price/core.py: the three aggregations of the    *)
(* BellesoftExtraPartDetails plugin over a snapshot of the inventory.      *)
(*                                                                         *)
(*   part_total_purchase_cost   total purchase value, by condition status  *)
(*   part_total_stock           unit counts, by condition status           *)
(*   part_stock_by_location     unit counts per storage location           *)
(*                                                                         *)
(* Python values are encoded as follows.                                   *)
(*   None              the empty tuple <<>>                                *)
(*   Decimal(n)        the 1-tuple <<n>>                                   *)
(*   Money(n, c)       the pair <<n, c>>                                   *)
(*   str               a tuple of one-character strings ("" and None, both *)
(*                     falsy, coincide)                                    *)
(*   an exception      a record [raised |-> "<exception class>"]           *)
(***************************************************************************)
EXTENDS Integers, Sequences, FiniteSets, TLC

(***************************************************************************)
(* Bounds and input domains                                                *)
(***************************************************************************)
\* largest number of stock items in a snapshot
MaxItems == 3
\* largest number of rows the location aggregation query returns
MaxRows == 3

PartIds == {1, 2}
Quantities == {1, 2}
Currencies == {"USD", "EUR"}

None == <<>>

\* StockStatus members the code names (OK, DAMAGED) and one it does not
OK == "OK"
DAMAGED == "DAMAGED"
Statuses == {OK, DAMAGED, "ATTENTION"}

\* purchase_price of a stock item: unset, or an amount in a currency
PurchasePrices == {None, <<2, "USD">>, <<7, "EUR">>}

StockItems == [quantity : Quantities, status : Statuses, purchase_price : PurchasePrices]

\* The internal price breaks of the part, as the host reports them:
\* has_internal_price_breaks, get_internal_price(quantity) (None when the
\* host derives no price) and the price of internal_price_breaks.first().
NoBreaks == [has_internal_price_breaks |-> FALSE,
             get_internal_price |-> [q \in Quantities |-> None],
             first_break_price |-> None]

\* a price at quantity 1 only, the first break priced in EUR
BreaksFromOne == [has_internal_price_breaks |-> TRUE,
                  get_internal_price |-> [q \in Quantities |-> IF q = 1 THEN <<3>> ELSE None],
                  first_break_price |-> <<5, "EUR">>]

\* a price at every quantity, but the first break has a zero price
BreaksZeroFirst == [has_internal_price_breaks |-> TRUE,
                    get_internal_price |-> [q \in Quantities |-> <<3 + q>>],
                    first_break_price |-> <<0, "USD">>]

Pricings == {NoBreaks, BreaksFromOne, BreaksZeroFirst}

SeqsUpTo(S, n) == UNION {[1..k -> S] : k \in 0..n}

\* ids of StockLocation records that stock items refer to
LocIds == {2, 12}

\* the location of a stock item: None, or the 1-tuple of a location id
LocationRefs == {None} \cup {<<id>> : id \in LocIds}

\* StockLocation records: a nested one, a top-level one whose pathstring is
\* empty, and a top-level one that a user named "No Location"
Shelf == [name |-> <<"A">>, pathstring |-> <<"S", "/", "A">>]
Bin == [name |-> <<"B">>, pathstring |-> <<>>]
NamedNoLocation ==
    [name |-> <<"N", "o", " ", "L", "o", "c", "a", "t", "i", "o", "n">>,
     pathstring |-> <<"N", "o", " ", "L", "o", "c", "a", "t", "i", "o", "n">>]

\* StockLocation tables: every id either resolves or was deleted (None)
LocationTables ==
    {t \in [LocIds -> {None, Shelf, Bin, NamedNoLocation}] :
        t[2] \in {None, Shelf} /\ t[12] \in {None, Bin, NamedNoLocation}}

\* groups of stock items (quantity, status) that one row aggregates
RowGroups ==
    {<<[quantity |-> 1, status |-> OK]>>,
     <<[quantity |-> 2, status |-> DAMAGED]>>,
     <<[quantity |-> 1, status |-> "ATTENTION"], [quantity |-> 2, status |-> OK]>>}

(***************************************************************************)
(* State                                                                   *)
(***************************************************************************)
VARIABLES
    parts,        \* ids of the Part records that exist
    stock_items,  \* the StockItem rows of the part, in iteration order
    pricing,      \* the part's internal price breaks
    rows,         \* what the location aggregation query returns
    locations,    \* StockLocation table: id -> record, or None when deleted
    pc,           \* per function: "idle", then "returned" or "raised"
    call,         \* per function: None, then <<part_id>> of the call made
    result        \* per function: None, then the value returned or the
                  \* exception raised

vars == <<parts, stock_items, pricing, rows, locations, pc, call, result>>

(***************************************************************************)
(* Python helpers                                                          *)
(***************************************************************************)
\* bool(x) for None, Decimal and Money: None and a zero amount are falsy
Truthy(x) == x # None /\ x[1] # 0

Money(amount, cur) == <<amount, cur>>

\* Money * Decimal quantity
MoneyTimes(price, quantity) == <<price[1] * quantity, price[2]>>

\* Money += Money of the same currency
MoneyPlus(a, b) == <<a[1] + b[1], a[2]>>

DoesNotExist == [raised |-> "DoesNotExist"]

Functions == {"part_total_purchase_cost", "part_total_stock", "part_stock_by_location"}

\* the outcome of calling fn with part_id recorded in pc, call and result
Outcome(fn, part_id, value) ==
    /\ pc[fn] = "idle"
    /\ call' = [call EXCEPT ![fn] = <<part_id>>]
    /\ result' = [result EXCEPT ![fn] = value]
    /\ pc' = [pc EXCEPT ![fn] = IF value = DoesNotExist THEN "raised" ELSE "returned"]

\* a lookup that never fails
PartExists_Always(part_id) == TRUE

\* Part.objects.get(id=part_id)
PartExists(part_id) == part_id \in parts

(***************************************************************************)
(* part_total_purchase_cost                                                *)
(***************************************************************************)
\* the fallback without the check of the first break's price
ResolvePrice_NoFirstBreakCheck(item, pr) ==
    LET price == item.purchase_price IN
    IF ~Truthy(price) /\ pr.has_internal_price_breaks
    THEN LET internal_price_decimal == pr.get_internal_price[item.quantity] IN
         IF Truthy(internal_price_decimal)
         THEN Money(internal_price_decimal[1], pr.first_break_price[2])
         ELSE price
    ELSE price

\* the price of an item after the fallback to the internal price
ResolvePrice(item, pr) ==
    LET price == item.purchase_price IN
    IF ~Truthy(price) /\ pr.has_internal_price_breaks
    THEN LET internal_price_decimal == pr.get_internal_price[item.quantity] IN
         IF Truthy(internal_price_decimal)
         THEN LET first_break_price == pr.first_break_price IN
              IF Truthy(first_break_price)
              THEN Money(internal_price_decimal[1], first_break_price[2])
              ELSE price
         ELSE price
    ELSE price

\* totals that start as zero Money of a default currency
CostStart_Zero == [total |-> <<0, "USD">>, ok_total |-> <<0, "USD">>,
                   damaged_total |-> <<0, "USD">>,
                   currency |-> None, mixed_currency |-> FALSE]

CostStart == [total |-> None, ok_total |-> None, damaged_total |-> None,
              currency |-> None, mixed_currency |-> FALSE]

\* the first use of a currency creates the three zero totals
CostOpen(acc, price) ==
    IF acc.currency = None
    THEN [acc EXCEPT !.currency = <<price[2]>>,
                     !.total = Money(0, price[2]),
                     !.ok_total = Money(0, price[2]),
                     !.damaged_total = Money(0, price[2])]
    ELSE acc

\* the accumulation with total under the else of the status test
CostAdd_TotalInElse(acc, item, price) ==
    LET line == <<price[1] * item.quantity, price[2]>> IN
    IF item.status = OK
    THEN [acc EXCEPT !.ok_total = <<acc.ok_total[1] + line[1], line[2]>>]
    ELSE IF item.status = DAMAGED
         THEN [acc EXCEPT !.damaged_total = <<acc.damaged_total[1] + line[1], line[2]>>]
         ELSE [acc EXCEPT !.total = <<acc.total[1] + line[1], line[2]>>]

\* the accumulation with ok_total assigned instead of added to
CostAdd_AssignOk(acc, item, price) ==
    LET line == <<price[1] * item.quantity, price[2]>>
        a1 == IF item.status = OK
              THEN [acc EXCEPT !.ok_total = line]
              ELSE IF item.status = DAMAGED
                   THEN [acc EXCEPT !.damaged_total = <<acc.damaged_total[1] + line[1], line[2]>>]
                   ELSE acc
    IN [a1 EXCEPT !.total = <<a1.total[1] + line[1], line[2]>>]

\* the accumulation of one item whose currency matches
CostAdd(acc, item, price) ==
    LET line == MoneyTimes(price, item.quantity)
        a1 == IF item.status = OK
              THEN [acc EXCEPT !.ok_total = MoneyPlus(acc.ok_total, line)]
              ELSE IF item.status = DAMAGED
                   THEN [acc EXCEPT !.damaged_total = MoneyPlus(acc.damaged_total, line)]
                   ELSE acc
    IN [a1 EXCEPT !.total = MoneyPlus(a1.total, line)]

\* the loop that goes on after a currency mismatch
RECURSIVE CostLoop_NoHalt(_, _, _, _)
CostLoop_NoHalt(items, pr, i, acc) ==
    IF i > Len(items) THEN acc
    ELSE LET item == items[i]
             price == ResolvePrice(item, pr)
         IN IF ~Truthy(price) THEN CostLoop_NoHalt(items, pr, i + 1, acc)
            ELSE LET opened == CostOpen(acc, price) IN
                 IF opened.currency # <<price[2]>>
                 THEN CostLoop_NoHalt(items, pr, i + 1,
                                      [opened EXCEPT !.mixed_currency = TRUE])
                 ELSE CostLoop_NoHalt(items, pr, i + 1, CostAdd(opened, item, price))

\* the for loop from item i on, with the accumulators acc
RECURSIVE CostLoop(_, _, _, _)
CostLoop(items, pr, i, acc) ==
    IF i > Len(items) THEN acc
    ELSE LET item == items[i]
             price == ResolvePrice(item, pr)
         IN IF ~Truthy(price) THEN CostLoop(items, pr, i + 1, acc)
            ELSE LET opened == CostOpen(acc, price) IN
                 IF opened.currency # <<price[2]>>
                 THEN [opened EXCEPT !.mixed_currency = TRUE]
                 ELSE CostLoop(items, pr, i + 1, CostAdd(opened, item, price))

part_total_purchase_cost(part_id, items, pr) ==
    IF ~PartExists(part_id) THEN DoesNotExist
    ELSE CostLoop(items, pr, 1, CostStart)

CallTotalPurchaseCost ==
    /\ \E part_id \in PartIds :
          Outcome("part_total_purchase_cost", part_id,
                  part_total_purchase_cost(part_id, stock_items, pricing))
    /\ UNCHANGED <<parts, stock_items, pricing, rows, locations>>

(***************************************************************************)
(* part_total_stock                                                        *)
(***************************************************************************)
\* Sum("quantity") over the items of status st: None when there is none
RECURSIVE SumQuantity(_, _, _)
SumQuantity(items, i, st) ==
    IF i > Len(items) THEN None
    ELSE LET rest == SumQuantity(items, i + 1, st) IN
         IF items[i].status = st
         THEN IF rest = None THEN <<items[i].quantity>>
              ELSE <<items[i].quantity + rest[1]>>
         ELSE rest

\* x or 0
OrZero(x) == IF Truthy(x) THEN x ELSE <<0>>

\* the sum of all quantities, the largest value total_stock is drawn from
RECURSIVE QuantityOfAll(_, _)
QuantityOfAll(items, i) ==
    IF i > Len(items) THEN 0 ELSE items[i].quantity + QuantityOfAll(items, i + 1)

\* total_stock is the host's Part.total_stock property, read as it is
part_total_stock(part_id, items, host_total_stock) ==
    IF ~PartExists(part_id) THEN DoesNotExist
    ELSE [total_stock |-> host_total_stock,
          ok_stock |-> OrZero(SumQuantity(items, 1, OK)),
          damaged_stock |-> OrZero(SumQuantity(items, 1, DAMAGED))]

CallTotalStock ==
    /\ \E part_id \in PartIds :
       \E host_total_stock \in {<<n>> : n \in 0..QuantityOfAll(stock_items, 1)} :
          Outcome("part_total_stock", part_id,
                  part_total_stock(part_id, stock_items, host_total_stock))
    /\ UNCHANGED <<parts, stock_items, pricing, rows, locations>>

(***************************************************************************)
(* part_stock_by_location                                                  *)
(***************************************************************************)
\* one row of values("location").annotate(...) over a group of items
RECURSIVE GroupSum(_, _, _)
GroupSum(group, i, sts) ==
    IF i > Len(group) THEN 0
    ELSE (IF group[i].status \in sts THEN group[i].quantity ELSE 0)
             + GroupSum(group, i + 1, sts)

Annotate(loc, group) ==
    [location |-> loc,
     total_qty |-> GroupSum(group, 1, Statuses),
     ok_qty |-> GroupSum(group, 1, {OK}),
     damaged_qty |-> GroupSum(group, 1, {DAMAGED})]

LocationRows == {Annotate(loc, g) : loc \in LocationRefs, g \in RowGroups}

\* position of key loc in the ordered dict d, 0 when absent
DictIndex(d, loc) ==
    IF \E k \in 1..Len(d) : d[k].location = loc
    THEN CHOOSE k \in 1..Len(d) : d[k].location = loc
    ELSE 0

\* per_location.setdefault(loc, zeros)
SetDefault(d, loc) ==
    IF DictIndex(d, loc) # 0 THEN d
    ELSE Append(d, [location |-> loc, total_qty |-> 0, ok_qty |-> 0, damaged_qty |-> 0])

\* a pass that stores the row instead of adding it
MergeRow_Overwrite(d, row) ==
    LET d1 == SetDefault(d, row.location)
        k == DictIndex(d1, row.location)
    IN [d1 EXCEPT ![k].total_qty = row.total_qty,
                  ![k].ok_qty = row.ok_qty,
                  ![k].damaged_qty = row.damaged_qty]

\* one pass of the merge loop
MergeRow(d, row) ==
    LET d1 == SetDefault(d, row.location)
        k == DictIndex(d1, row.location)
    IN [d1 EXCEPT ![k].total_qty = @ + row.total_qty,
                  ![k].ok_qty = @ + row.ok_qty,
                  ![k].damaged_qty = @ + row.damaged_qty]

\* the merge loop over location_totals from row i on
RECURSIVE MergeRows(_, _, _)
MergeRows(location_totals, i, d) ==
    IF i > Len(location_totals) THEN d
    ELSE MergeRows(location_totals, i + 1, MergeRow(d, location_totals[i]))

Digits == <<"0", "1", "2", "3", "4", "5", "6", "7", "8", "9">>

\* a conversion that keeps the last digit only
Str_LastDigit(n) == <<Digits[(n % 10) + 1]>>

\* str(n) for a non-negative integer
RECURSIVE Str(_)
Str(n) == IF n < 10 THEN <<Digits[n + 1]>> ELSE Str(n \div 10) \o <<Digits[(n % 10) + 1]>>

NoLocationName == <<"N", "o", " ", "L", "o", "c", "a", "t", "i", "o", "n">>
NoLocationKey == <<"n", "o", "_", "l", "o", "c", "a", "t", "i", "o", "n">>

\* f"Location {location_id} (deleted)"
DeletedName(id) ==
    <<"L", "o", "c", "a", "t", "i", "o", "n", " ">> \o Str(id)
        \o <<" ", "(", "d", "e", "l", "e", "t", "e", "d", ")">>

\* a placeholder that leaves out the id
LocationLabel_NoId(location_id, table) ==
    IF Truthy(location_id)
    THEN LET location == table[location_id[1]] IN
         IF location # None
         THEN [name |-> location.name,
               path |-> IF location.pathstring # <<>> THEN location.pathstring
                        ELSE location.name]
         ELSE [name |-> <<"(", "d", "e", "l", "e", "t", "e", "d", ")">>,
               path |-> <<"(", "d", "e", "l", "e", "t", "e", "d", ")">>]
    ELSE [name |-> NoLocationName, path |-> NoLocationName]

\* name and path of a location id; table[id] = None is DoesNotExist
LocationLabel(location_id, table) ==
    IF Truthy(location_id)
    THEN LET location == table[location_id[1]] IN
         IF location # None
         THEN [name |-> location.name,
               path |-> IF location.pathstring # <<>> THEN location.pathstring
                        ELSE location.name]
         ELSE [name |-> DeletedName(location_id[1]), path |-> DeletedName(location_id[1])]
    ELSE [name |-> NoLocationName, path |-> NoLocationName]

DictKey(location_id) ==
    IF location_id # None THEN Str(location_id[1]) ELSE NoLocationKey

LocationEntry(agg, table) ==
    LET label == LocationLabel(agg.location, table) IN
    [location_id |-> agg.location,
     location_name |-> label.name,
     location_path |-> label.path,
     total |-> agg.total_qty,
     ok |-> agg.ok_qty,
     damaged |-> agg.damaged_qty]

\* the loop that fills location_data from per_location, from entry i on;
\* an assignment to a key already present replaces its entry
RECURSIVE BuildLocationData(_, _, _, _)
BuildLocationData(per_location, table, i, location_data) ==
    IF i > Len(per_location) THEN location_data
    ELSE BuildLocationData(per_location, table, i + 1,
             (DictKey(per_location[i].location) :> LocationEntry(per_location[i], table))
                 @@ location_data)

part_stock_by_location(part_id, location_totals, table) ==
    IF ~PartExists(part_id) THEN DoesNotExist
    ELSE BuildLocationData(MergeRows(location_totals, 1, <<>>), table, 1, <<>>)

CallStockByLocation ==
    /\ \E part_id \in PartIds :
          Outcome("part_stock_by_location", part_id,
                  part_stock_by_location(part_id, rows, locations))
    /\ UNCHANGED <<parts, stock_items, pricing, rows, locations>>

(***************************************************************************)
(* Specifications                                                          *)
(***************************************************************************)
\* every function, called for a part that exists or not
Init ==
    /\ parts \in {{1}, {1, 2}}
    /\ stock_items \in SeqsUpTo(StockItems, 1)
    /\ pricing \in Pricings
    /\ rows \in SeqsUpTo(LocationRows, 1)
    /\ locations \in LocationTables
    /\ pc = [fn \in Functions |-> "idle"]
    /\ call = [fn \in Functions |-> None]
    /\ result = [fn \in Functions |-> None]

Next ==
    \/ CallTotalPurchaseCost
    \/ CallTotalStock
    \/ CallStockByLocation

Spec == Init /\ [][Next]_vars

\* part_stock_by_location over every query result and location table
InitLoc ==
    /\ parts = {1}
    /\ stock_items = <<>>
    /\ pricing = NoBreaks
    /\ rows \in SeqsUpTo(LocationRows, MaxRows)
    /\ locations \in LocationTables
    /\ pc = [fn \in Functions |-> "idle"]
    /\ call = [fn \in Functions |-> None]
    /\ result = [fn \in Functions |-> None]

NextLoc == CallStockByLocation

SpecLoc == InitLoc /\ [][NextLoc]_vars

\* part_total_purchase_cost over every snapshot of stock items and prices
InitCost ==
    /\ parts = {1}
    /\ stock_items \in SeqsUpTo(StockItems, MaxItems)
    /\ pricing \in Pricings
    /\ rows = <<>>
    /\ locations \in {t \in LocationTables : \A id \in LocIds : t[id] = None}
    /\ pc = [fn \in Functions |-> "idle"]
    /\ call = [fn \in Functions |-> None]
    /\ result = [fn \in Functions |-> None]

NextCost == CallTotalPurchaseCost

SpecCost == InitCost /\ [][NextCost]_vars

\* The same call over snapshots whose items are OK or DAMAGED, for the
\* properties that compare every iteration order of a snapshot.
InitOrder ==
    /\ parts = {1}
    /\ stock_items \in SeqsUpTo({it \in StockItems : it.status \in {OK, DAMAGED}}, MaxItems)
    /\ pricing \in Pricings
    /\ rows = <<>>
    /\ locations \in {t \in LocationTables : \A id \in LocIds : t[id] = None}
    /\ pc = [fn \in Functions |-> "idle"]
    /\ call = [fn \in Functions |-> None]
    /\ result = [fn \in Functions |-> None]

SpecOrder == InitOrder /\ [][NextCost]_vars

(***************************************************************************)
(* Reference definitions used to state the properties                      *)
(***************************************************************************)
\* the call that has returned or raised is a call of fn
Returned(fn) == pc[fn] = "returned"
Raised(fn) == pc[fn] = "raised"

Cost == "part_total_purchase_cost"
ByLocation == "part_stock_by_location"

\* the value the call of fn returned, and the part it was called for
CostResult == result[Cost]
CostPart == call[Cost][1]

\* the part has a fallback price at quantity q that the code can use
FallbackUsable(q) ==
    /\ pricing.has_internal_price_breaks
    /\ Truthy(pricing.get_internal_price[q])
    /\ Truthy(pricing.first_break_price)

\* the price an item contributes with, None when it contributes nothing
ContributingPrice(item) ==
    IF Truthy(item.purchase_price) THEN item.purchase_price
    ELSE IF FallbackUsable(item.quantity)
         THEN <<pricing.get_internal_price[item.quantity][1], pricing.first_break_price[2]>>
         ELSE None

Contributes(item) == ContributingPrice(item) # None

\* positions among 1..n of the contributing items
Contributors(items, n) == {i \in 1..n : Contributes(items[i])}

\* the contributing items among the first n all carry currency c
OneCurrency(items, n, c) ==
    \A i \in Contributors(items, n) : ContributingPrice(items[i])[2] = c

\* price * quantity summed over the positions in S
RECURSIVE LineSum(_, _)
LineSum(items, S) ==
    IF S = {} THEN 0
    ELSE LET i == CHOOSE x \in S : TRUE
         IN ContributingPrice(items[i])[1] * items[i].quantity + LineSum(items, S \ {i})

WithStatus(items, S, st) == {i \in S : items[i].status = st}

\* the aggregation of the first n items, all of currency c
Aggregation(items, n, c) ==
    LET S == Contributors(items, n) IN
    [total |-> <<LineSum(items, S), c>>,
     ok_total |-> <<LineSum(items, WithStatus(items, S, OK)), c>>,
     damaged_total |-> <<LineSum(items, WithStatus(items, S, DAMAGED)), c>>,
     currency |-> <<c>>]

SameTotals(r, a) ==
    /\ r.total = a.total
    /\ r.ok_total = a.ok_total
    /\ r.damaged_total = a.damaged_total
    /\ r.currency = a.currency

PermsOf(n) == {f \in [1..n -> 1..n] : \A i, j \in 1..n : f[i] = f[j] => i = j}

\* the permutations of 1..n, for every number of stock items
ItemPerms == [n \in 0..MaxItems |-> PermsOf(n)]

\* the permutations of 1..n, for every number of rows
RowPerms == [n \in 0..MaxRows |-> PermsOf(n)]

Permuted(items, f) == [i \in 1..Len(items) |-> items[f[i]]]

\* items without the one at position i
Without(items, i) == SubSeq(items, 1, i - 1) \o SubSeq(items, i + 1, Len(items))

(***************************************************************************)
(* Properties of part_total_purchase_cost                                  *)
(***************************************************************************)
\* n contributing-consistent items of currency c are followed by a
\* contributing item of another currency
MismatchAfter(items, n, c) ==
    /\ n + 1 <= Len(items)
    /\ Contributors(items, n) # {}
    /\ OneCurrency(items, n, c)
    /\ Contributes(items[n + 1])
    /\ ContributingPrice(items[n + 1])[2] # c

\* C1: when the items iterated before position n+1 contribute in one
\* currency c and the item at n+1 contributes in another currency, the call
\* returns mixed_currency = TRUE, currency c, and total, ok_total and
\* damaged_total equal to the aggregation of the first n items only.
C1_HaltAtFirstMismatch ==
    Returned(Cost) =>
        \A n \in 1..Len(stock_items) : \A c \in Currencies :
            MismatchAfter(stock_items, n, c) =>
                /\ CostResult.mixed_currency = TRUE
                /\ SameTotals(CostResult, Aggregation(stock_items, n, c))

\* two contributing items of one currency, then a mismatch, then one more
\* contributing item that is left out
C1_Witness ==
    /\ Returned(Cost)
    /\ Len(stock_items) = 3
    /\ \E c \in Currencies :
          /\ MismatchAfter(stock_items, 1, c)
          /\ Contributes(stock_items[3])
          /\ CostResult.mixed_currency
          /\ CostResult.total[1] > 0

\* C2: an item without purchase price whose part has a usable internal
\* price at its quantity is aggregated exactly as an item bought at that
\* internal price in the currency of the first price break (alone, it
\* yields internal_price * quantity as total and as the subtotal of its
\* status); an item without purchase price and without usable fallback
\* leaves total, subtotals, currency and mixed_currency as they are without
\* it.
C2_FallbackPrice ==
    Returned(Cost) =>
        \A i \in 1..Len(stock_items) :
            LET item == stock_items[i]
                q == item.quantity
            IN item.purchase_price = None =>
                 IF FallbackUsable(q)
                 THEN LET ip == pricing.get_internal_price[q][1]
                          fc == pricing.first_break_price[2]
                          bought == [item EXCEPT !.purchase_price = <<ip, fc>>]
                          alone == part_total_purchase_cost(CostPart, <<item>>, pricing)
                      IN /\ CostResult = part_total_purchase_cost(
                                         CostPart, [stock_items EXCEPT ![i] = bought], pricing)
                         /\ alone.total = <<ip * q, fc>>
                         /\ alone.currency = <<fc>>
                         /\ alone.ok_total = <<IF item.status = OK THEN ip * q ELSE 0, fc>>
                         /\ alone.damaged_total =
                                <<IF item.status = DAMAGED THEN ip * q ELSE 0, fc>>
                         /\ ~alone.mixed_currency
                 ELSE CostResult = part_total_purchase_cost(
                                   CostPart, Without(stock_items, i), pricing)

\* an item priced by the fallback is summed with a purchased item, and an
\* item without any price sits between them
C2_Witness ==
    /\ Returned(Cost)
    /\ Len(stock_items) = 3
    /\ stock_items[1].purchase_price = None /\ FallbackUsable(stock_items[1].quantity)
    /\ stock_items[2].purchase_price = None /\ ~FallbackUsable(stock_items[2].quantity)
    /\ Truthy(stock_items[3].purchase_price)
    /\ ~CostResult.mixed_currency
    /\ CostResult.total[1] > ContributingPrice(stock_items[3])[1] * stock_items[3].quantity

\* C3: when all contributing items share one currency, total is the sum of
\* price * quantity over all contributing items, ok_total and damaged_total
\* the sums over those of status OK and DAMAGED, so that
\* total = ok_total + damaged_total + the sum over the other statuses.
C3_TotalIsSumOfParts ==
    Returned(Cost) =>
        \A c \in Currencies :
            LET n == Len(stock_items)
                S == Contributors(stock_items, n)
                others == {i \in S : stock_items[i].status \notin {OK, DAMAGED}}
            IN (S # {} /\ OneCurrency(stock_items, n, c)) =>
                 /\ SameTotals(CostResult, Aggregation(stock_items, n, c))
                 /\ ~CostResult.mixed_currency
                 /\ CostResult.total[1] = CostResult.ok_total[1] + CostResult.damaged_total[1]
                                        + LineSum(stock_items, others)

\* one contributing item of each kind of status, one currency
C3_Witness ==
    /\ Returned(Cost)
    /\ Len(stock_items) = 3
    /\ \A i \in 1..3 : Contributes(stock_items[i])
    /\ {stock_items[i].status : i \in 1..3} = Statuses
    /\ ~CostResult.mixed_currency
    /\ CostResult.ok_total[1] > 0 /\ CostResult.damaged_total[1] > 0
    /\ CostResult.total[1] > CostResult.ok_total[1] + CostResult.damaged_total[1]

\* C4: for an existing part with no items, or whose items all lack both a
\* purchase price and a usable fallback, total, ok_total, damaged_total and
\* currency are None and mixed_currency is FALSE.
C4_NothingContributes ==
    Returned(Cost) =>
        ((\A i \in 1..Len(stock_items) :
              /\ stock_items[i].purchase_price = None
              /\ ~FallbackUsable(stock_items[i].quantity))
         => /\ CostResult.total = None
            /\ CostResult.ok_total = None
            /\ CostResult.damaged_total = None
            /\ CostResult.currency = None
            /\ CostResult.mixed_currency = FALSE)

\* items exist, the part has price breaks, yet none of the items gets a price
C4_Witness ==
    /\ Returned(Cost)
    /\ Len(stock_items) >= 2
    /\ pricing.has_internal_price_breaks
    /\ \A i \in 1..Len(stock_items) :
          stock_items[i].purchase_price = None /\ ~FallbackUsable(stock_items[i].quantity)
    /\ CostResult.total = None

\* C10 as stated: every iteration order of the items gives the same result.
C10_OrderIndependent ==
    Returned(Cost) =>
        \A f \in ItemPerms[Len(stock_items)] :
            part_total_purchase_cost(CostPart, Permuted(stock_items, f), pricing) = CostResult

\* C10 amended: mixed_currency is the same for every iteration order, and
\* when all contributing items share one currency so are total, ok_total,
\* damaged_total and currency.
C10_OrderIndependentWithinOneCurrency ==
    Returned(Cost) =>
        IF \E c \in Currencies : OneCurrency(stock_items, Len(stock_items), c)
        THEN \A f \in ItemPerms[Len(stock_items)] :
                 part_total_purchase_cost(CostPart, Permuted(stock_items, f), pricing) = CostResult
        ELSE \A f \in ItemPerms[Len(stock_items)] :
                 part_total_purchase_cost(CostPart, Permuted(stock_items, f), pricing)
                     .mixed_currency = CostResult.mixed_currency

\* three contributing items of one currency with distinct lines
C10_Witness ==
    /\ Returned(Cost)
    /\ Len(stock_items) = 3
    /\ \A i \in 1..3 : Contributes(stock_items[i])
    /\ \E c \in Currencies : OneCurrency(stock_items, 3, c)
    /\ stock_items[1] # stock_items[2] /\ stock_items[2] # stock_items[3]
    /\ CostResult.total[1] > 0

(***************************************************************************)
(* Properties of part_stock_by_location                                    *)
(***************************************************************************)
LocResult == result[ByLocation]
LocPart == call[ByLocation][1]

\* the locations the rows refer to, and the rows of one location
RowLocations(rs) == {rs[i].location : i \in 1..Len(rs)}
RowsOf(rs, loc) == {i \in 1..Len(rs) : rs[i].location = loc}

\* element-wise sums of the rows at the positions in S
RECURSIVE RowSum(_, _)
RowSum(rs, S) ==
    IF S = {} THEN [total |-> 0, ok |-> 0, damaged |-> 0]
    ELSE LET i == CHOOSE x \in S : TRUE
             rest == RowSum(rs, S \ {i})
         IN [total |-> rs[i].total_qty + rest.total,
             ok |-> rs[i].ok_qty + rest.ok,
             damaged |-> rs[i].damaged_qty + rest.damaged]

Quantities3(entry) == [total |-> entry.total, ok |-> entry.ok, damaged |-> entry.damaged]

\* s occurs in t as a run of consecutive characters
Contains(t, s) ==
    \E k \in 0..(Len(t) - Len(s)) : SubSeq(t, k + 1, k + Len(s)) = s

\* C6: the entry of every location holds the element-wise sum of all rows
\* of that location, there is no other entry, and every permutation of the
\* rows yields the same mapping.
C6_MergeIsOrderIndependent ==
    Returned(ByLocation) =>
        /\ DOMAIN LocResult = {DictKey(loc) : loc \in RowLocations(rows)}
        /\ \A loc \in RowLocations(rows) :
               Quantities3(LocResult[DictKey(loc)]) = RowSum(rows, RowsOf(rows, loc))
        /\ \A f \in RowPerms[Len(rows)] :
               part_stock_by_location(LocPart, Permuted(rows, f), locations) = LocResult

\* two rows of one location with a row of another location between them
C6_Witness ==
    /\ Returned(ByLocation)
    /\ Len(rows) = 3
    /\ rows[1].location = rows[3].location
    /\ rows[2].location # rows[1].location
    /\ rows[1] # rows[3]
    /\ LocResult[DictKey(rows[1].location)].total = rows[1].total_qty + rows[3].total_qty
    /\ LocResult[DictKey(rows[1].location)].damaged > 0
    /\ LocResult[DictKey(rows[1].location)].ok > 0

\* the ids among the rows that the StockLocation table no longer has
DeletedIds == {id \in LocIds : <<id>> \in RowLocations(rows) /\ locations[id] = None}

\* C7: a call for an existing part returns (it does not raise); for every
\* location id of the rows that no longer resolves, the mapping has an
\* entry whose name and path are the same placeholder, which contains the
\* id and the word "deleted", with the merged quantities of that id; every
\* other entry is what it is when that location still exists.
C7_DeletedLocationPlaceholder ==
    /\ (call[ByLocation] # None /\ LocPart \in parts) => Returned(ByLocation)
    /\ Returned(ByLocation) =>
        \A id \in DeletedIds :
            LET entry == LocResult[Str(id)]
                restored == part_stock_by_location(
                                LocPart, rows, [locations EXCEPT ![id] = Shelf])
            IN /\ Str(id) \in DOMAIN LocResult
               /\ entry.location_name = entry.location_path
               /\ Contains(entry.location_name, Str(id))
               /\ Contains(entry.location_name, <<"d", "e", "l", "e", "t", "e", "d">>)
               /\ entry.location_name \notin {Shelf.name, Bin.name, NoLocationName}
               /\ Quantities3(entry) = RowSum(rows, RowsOf(rows, <<id>>))
               /\ DOMAIN restored = DOMAIN LocResult
               /\ \A k \in DOMAIN LocResult \ {Str(id)} : LocResult[k] = restored[k]

\* a deleted location next to a resolved one and the no-location bucket
C7_Witness ==
    /\ Returned(ByLocation)
    /\ DeletedIds = {12}
    /\ RowLocations(rows) = LocationRefs
    /\ locations[2] = Shelf
    /\ LocResult[Str(12)].location_name = DeletedName(12)
    /\ LocResult[Str(2)].location_name = Shelf.name
    /\ LocResult[NoLocationKey].location_name = NoLocationName

\* keys, identifiers and the no-location bucket of the mapping
C9_Keys ==
    /\ \A loc \in RowLocations(rows) :
           /\ DictKey(loc) \in DOMAIN LocResult
           /\ LocResult[DictKey(loc)].location_id = loc
           /\ (loc # None) => (DictKey(loc) = Str(loc[1]) /\ DictKey(loc) # NoLocationKey)
    /\ Cardinality(DOMAIN LocResult) = Cardinality(RowLocations(rows))
    /\ None \in RowLocations(rows) =>
           /\ LocResult[NoLocationKey].location_name = NoLocationName
           /\ LocResult[NoLocationKey].location_path = NoLocationName
    /\ \A k \in DOMAIN LocResult :
           (k = NoLocationKey) <=> (LocResult[k].location_id = None)

\* C9 as stated: the null-location bucket has name and path "No Location"
\* under the key "no_location", every other location is stored under the
\* string of its id, which is never the sentinel, no two groups share a
\* key, and only the null-location bucket carries the name or path
\* "No Location".
C9_NoLocationNameOnlyForNull ==
    Returned(ByLocation) =>
        /\ C9_Keys
        /\ \A k \in DOMAIN LocResult :
               (LocResult[k].location_name = NoLocationName
                    \/ LocResult[k].location_path = NoLocationName)
               => LocResult[k].location_id = None

\* C9 amended: as stated, except that the entry of a non-null location
\* carries the name (or path) "No Location" exactly when its StockLocation
\* record resolves and is itself named so (or has that path).
C9_SentinelKeyOnlyForNull ==
    Returned(ByLocation) =>
        /\ C9_Keys
        /\ \A k \in DOMAIN LocResult :
               LET entry == LocResult[k] IN
               entry.location_id # None =>
                   LET location == locations[entry.location_id[1]] IN
                   /\ entry.location_name = NoLocationName
                          <=> (location # None /\ location.name = NoLocationName)
                   /\ entry.location_path = NoLocationName
                          <=> (/\ location # None
                               /\ \/ location.pathstring = NoLocationName
                                  \/ /\ location.pathstring = <<>>
                                     /\ location.name = NoLocationName)

\* the no-location bucket next to the entries of both location ids
C9_Witness ==
    /\ Returned(ByLocation)
    /\ RowLocations(rows) = LocationRefs
    /\ DOMAIN LocResult = {NoLocationKey, Str(2), Str(12)}
    /\ LocResult[NoLocationKey].location_name = NoLocationName
    /\ LocResult[Str(12)].location_name = NoLocationName
    /\ LocResult[Str(12)].location_id = <<12>>

(***************************************************************************)
(* Properties of all three functions                                       *)
(***************************************************************************)
\* the results for a part that exists and has no stock items at all
EmptyResults ==
    {CostStart,
     [total_stock |-> <<0>>, ok_stock |-> <<0>>, damaged_stock |-> <<0>>],
     <<>>}

\* C8: a call of any of the three functions with a part id that matches no
\* Part ends by raising DoesNotExist and yields no result, in particular
\* none of the results of a part without stock items; a call returns only
\* for a part that exists.
C8_MissingPartRaises ==
    \A fn \in Functions :
        call[fn] # None =>
            /\ call[fn][1] \notin parts =>
                   /\ Raised(fn)
                   /\ result[fn] = DoesNotExist
                   /\ result[fn] \notin EmptyResults
            /\ Returned(fn) => call[fn][1] \in parts

\* all three functions have raised for the part that does not exist, over
\* a snapshot without stock items and rows
C8_Witness ==
    /\ \A fn \in Functions : Raised(fn) /\ call[fn] = <<2>>
    /\ parts = {1}
    /\ stock_items = <<>>
    /\ rows = <<>>

====
